---- MODULE Spec2Model ----
(***************************************************************************)
(* A model of odoo-venv (src/odoo_venv/main.py): the marker evaluator, the *)
(* requirement line processor with its ignore rules, the stage command     *)
(* runner and the provisioning sequence of create_odoo_venv.               *)
(*                                                                         *)
(* Text is modelled structurally.  A version string is a sequence of       *)
(* one-character strings ("17.0" is <<"1","7",".","0">>), so that parsing, *)
(* truncation and lexical comparison are computed.  A marker expression is *)
(* a sequence of tokens: comparisons separated by " and " / " or ".        *)
(***************************************************************************)
EXTENDS Integers, Sequences, FiniteSets, TLC

(* ---------------------------------------------------------------- bounds *)

\* Largest number of comparisons in one marker expression.
MaxAtoms == 3

\* Largest number of entries in the ignore options together.
MaxIgnore == 2

\* Largest number of extra command specs.
MaxCmds == 2

(* ------------------------------------------------------------- variables *)

VARIABLES
    odoo_version,     \* create_odoo_venv / _evaluate_marker argument
    python_version,   \* requested interpreter version, or None
    marker_expr,      \* _evaluate_marker argument under evaluation
    marker_result,    \* "unset", or the outcome: "True", "False", "raise"
    ignore_req_lines, \* the comma-split entries of the ignore options
    ignored_req_map,  \* lower-cased name -> list of ignore requirements
    req_line,         \* the raw line handed to _process_requirement_line
    line_ret,         \* "unset", or what the call did: "True", "False", "raise"
    tmp_file,         \* the lines written to the temporary requirements file
    req_count,        \* create_odoo_venv's running count of emitted lines
    pc,               \* where create_odoo_venv stands
    extra_commands,   \* the extra command specs of the run
    dry_run,          \* create_odoo_venv argument
    install_odoo,     \* create_odoo_venv argument
    sources,          \* the requirement sources and ignore options of the run
    run_log,          \* what the run did so far, in order
    warnings,         \* the warnings printed so far, in order
    tmp_state,        \* the temporary file: "absent", "exists" or "removed"
    exit_status,      \* "running", or the process's exit status "0" / "1"
    default_doc,      \* the shipped presets document (assets/presets.toml)
    user_file,        \* the user's presets file: whether it exists, and its document
    presets,          \* what load_presets returned: name -> Preset
    argv,             \* the command line of `create`
    default_map,      \* ctx.default_map of the `create` command
    ctx_obj,          \* ctx.obj of the `create` command
    create_kwargs     \* the arguments create() handed to create_odoo_venv

markerVars == <<marker_expr, marker_result>>
lineVars == <<ignore_req_lines, ignored_req_map, req_line, line_ret>>
runVars == <<pc, extra_commands, dry_run, install_odoo, sources, run_log,
             warnings, tmp_state, exit_status>>
presetVars == <<default_doc, user_file, presets>>
cliVars == <<argv, default_map, ctx_obj, create_kwargs>>
vars == <<odoo_version, python_version, marker_expr, marker_result,
          ignore_req_lines, ignored_req_map, req_line, line_ret,
          tmp_file, req_count, pc, extra_commands, dry_run, install_odoo,
          sources, run_log, warnings, tmp_state, exit_status,
          default_doc, user_file, presets, argv, default_map, ctx_obj,
          create_kwargs>>

(* ------------------------------------------------------ strings, versions *)

None == <<"N", "o", "n", "e">>

\* The characters the model's strings use, in code point order.
Chars == <<".", "0", "1", "2", "3", "4", "5", "6", "7", "8", "9", "x">>

Ord(c) == CHOOSE i \in 1..Len(Chars) : Chars[i] = c

Digits == {"0", "1", "2", "3", "4", "5", "6", "7", "8", "9"}

DigitVal(c) == Ord(c) - Ord("0")

\* str.split(sep) on a sequence: the pieces between the separators.
RECURSIVE SplitOn(_, _)
SplitOn(s, sep) ==
    IF \E i \in 1..Len(s) : s[i] = sep
    THEN LET i == CHOOSE k \in 1..Len(s) :
                      s[k] = sep /\ \A j \in 1..(k - 1) : s[j] # sep
         IN  <<SubSeq(s, 1, i - 1)>> \o SplitOn(SubSeq(s, i + 1, Len(s)), sep)
    ELSE <<s>>

\* sep.join(parts)
RECURSIVE JoinWith(_, _)
JoinWith(parts, sep) ==
    IF Len(parts) = 0 THEN <<>>
    ELSE IF Len(parts) = 1 THEN parts[1]
    ELSE parts[1] \o <<sep>> \o JoinWith(Tail(parts), sep)

\* Python's ordering of two str values: -1, 0 or 1.
RECURSIVE StrCmp(_, _)
StrCmp(a, b) ==
    IF a = <<>> /\ b = <<>> THEN 0
    ELSE IF a = <<>> THEN -1
    ELSE IF b = <<>> THEN 1
    ELSE IF Ord(Head(a)) < Ord(Head(b)) THEN -1
    ELSE IF Ord(Head(a)) > Ord(Head(b)) THEN 1
    ELSE StrCmp(Tail(a), Tail(b))

RECURSIVE ToNat(_)
ToNat(ds) ==
    IF ds = <<>> THEN 0
    ELSE 10 * ToNat(SubSeq(ds, 1, Len(ds) - 1)) + DigitVal(ds[Len(ds)])

\* Every segment is a non-empty run of digits.
AllNumeric(parts) ==
    \A i \in 1..Len(parts) :
        /\ parts[i] # <<>>
        /\ \A j \in 1..Len(parts[i]) : parts[i][j] \in Digits

\* packaging.version.parse accepts the string (release segments only here).
IsVersionStr(s) == AllNumeric(SplitOn(s, "."))

ReleaseOf(parts) == [i \in 1..Len(parts) |-> ToNat(parts[i])]

\* packaging.version.parse: the release tuple of a valid version string.
parse_version(s) == ReleaseOf(SplitOn(s, "."))

\* Ordering of two release tuples, the shorter padded with zeros.
RECURSIVE VersionCmp(_, _)
VersionCmp(a, b) ==
    IF a = <<>> /\ b = <<>> THEN 0
    ELSE LET x == IF a = <<>> THEN 0 ELSE Head(a)
             y == IF b = <<>> THEN 0 ELSE Head(b)
         IN  IF x < y THEN -1
             ELSE IF x > y THEN 1
             ELSE VersionCmp(IF a = <<>> THEN a ELSE Tail(a),
                             IF b = <<>> THEN b ELSE Tail(b))

Comparators == {"<", "<=", ">", ">=", "==", "!="}

\* _COMPARISON_OPS[op_str] applied to operands whose ordering is c.
_COMPARISON_OPS(op_str, c) ==
    CASE op_str = "<"  -> c < 0
      [] op_str = "<=" -> c <= 0
      [] op_str = ">"  -> c > 0
      [] op_str = ">=" -> c >= 0
      [] op_str = "==" -> c = 0
      [] op_str = "!=" -> c # 0

\* parts[:2]
FirstTwo(parts) == SubSeq(parts, 1, IF Len(parts) < 2 THEN Len(parts) ELSE 2)

\* ".".join(python_version.split(".")[:2])
MajorMinor(v) == JoinWith(FirstTwo(SplitOn(v, ".")), ".")

(* ------------------------------------------------------ marker expressions *)

\* A comparison as written.  shape says how its text is laid out:
\*   "cmp"       var op 'lit'
\*   "trailing"  var op 'lit' followed by more text
\*   "reversed"  'lit' op var
\*   "noquote"   var op lit        (the literal is not quoted)
Atom(var, op, lit, shape) ==
    [t |-> "atom", var |-> var, op |-> op, lit |-> lit, shape |-> shape]

Tok(c) == [t |-> c, var |-> "", op |-> "", lit |-> <<>>, shape |-> ""]

HasTok(expr, c) == \E i \in 1..Len(expr) : expr[i].t = c

\* "odoo_version" in marker_expr
MentionsOdooVersion(expr) ==
    \E i \in 1..Len(expr) : expr[i].t = "atom" /\ expr[i].var = "odoo_version"

\* packaging.markers.default_environment(), the keys the model's markers use.
default_environment ==
    [python_version |-> <<"3", ".", "1", "2">>,
     python_full_version |-> <<"3", ".", "1", "2", ".", "1">>]

\* The environment _evaluate_marker builds before it looks at the expression.
MarkerEnv(py) ==
    IF py # None
    THEN [python_version |-> MajorMinor(py), python_full_version |-> py]
    ELSE default_environment

\* The regular expression of _evaluate_version_expr, tried with re.match:
\* anchored at the start only.
RegexMatches(a) == a.shape \in {"cmp", "trailing"}

\* One comparison of the custom evaluator.
EvaluateComparison(a, variables) ==
    IF ~RegexMatches(a) THEN FALSE
    ELSE IF a.var \notin DOMAIN variables THEN FALSE
    ELSE LET actual_value == variables[a.var]
             compare_value == a.lit
         IN  IF IsVersionStr(actual_value) /\ IsVersionStr(compare_value)
             THEN _COMPARISON_OPS(a.op, VersionCmp(parse_version(actual_value),
                                                   parse_version(compare_value)))
             ELSE _COMPARISON_OPS(a.op, StrCmp(actual_value, compare_value))

\* _evaluate_version_expr splitting on " and " before " or ": the precedence
\* of the two connectives exchanged.
RECURSIVE VersionExprAndFirst(_, _)
VersionExprAndFirst(marker_expr_, variables) ==
    IF HasTok(marker_expr_, "and")
    THEN LET ps == SplitOn(marker_expr_, Tok("and"))
         IN  \A i \in 1..Len(ps) : VersionExprAndFirst(ps[i], variables)
    ELSE IF HasTok(marker_expr_, "or")
    THEN LET ps == SplitOn(marker_expr_, Tok("or"))
         IN  \E i \in 1..Len(ps) : VersionExprAndFirst(ps[i], variables)
    ELSE IF Len(marker_expr_) = 1
    THEN EvaluateComparison(marker_expr_[1], variables)
    ELSE FALSE

RECURSIVE _evaluate_version_expr(_, _)
_evaluate_version_expr(marker_expr_, variables) ==
    IF HasTok(marker_expr_, "or")
    THEN LET ps == SplitOn(marker_expr_, Tok("or"))
         IN  \E i \in 1..Len(ps) : _evaluate_version_expr(ps[i], variables)
    ELSE IF HasTok(marker_expr_, "and")
    THEN LET ps == SplitOn(marker_expr_, Tok("and"))
         IN  \A i \in 1..Len(ps) : _evaluate_version_expr(ps[i], variables)
    ELSE IF Len(marker_expr_) = 1
    THEN EvaluateComparison(marker_expr_[1], variables)
    ELSE FALSE

\* packaging's Marker(expr): the grammar accepts the comparison.
StdParses(a, env) ==
    /\ a.shape \in {"cmp", "reversed"}
    /\ a.var \in DOMAIN env

\* packaging's evaluation of one comparison: "True", "False" or "raise".
StdComparison(a, env) ==
    LET lhs == IF a.shape = "reversed" THEN a.lit ELSE env[a.var]
        rhs == IF a.shape = "reversed" THEN env[a.var] ELSE a.lit
        b2s(b) == IF b THEN "True" ELSE "False"
    IN  IF IsVersionStr(rhs)
        THEN IF IsVersionStr(lhs)
             THEN b2s(_COMPARISON_OPS(a.op, VersionCmp(parse_version(lhs),
                                                       parse_version(rhs))))
             ELSE "raise"
        ELSE b2s(_COMPARISON_OPS(a.op, StrCmp(lhs, rhs)))

\* all(...) over the comparisons of one and-group, left to right.
RECURSIVE StdAll(_, _)
StdAllStep(r, rest, env) == IF r = "True" THEN StdAll(rest, env) ELSE r

StdAll(group, env) ==
    IF group = <<>> THEN "True"
    ELSE StdAllStep(StdComparison(Head(group)[1], env), Tail(group), env)

\* any(...) over the and-groups, left to right.
RECURSIVE StdAny(_, _)
StdAnyStep(r, rest, env) == IF r = "False" THEN StdAny(rest, env) ELSE r

StdAny(groups, env) ==
    IF groups = <<>> THEN "False"
    ELSE StdAnyStep(StdAll(SplitOn(Head(groups), Tok("and")), env), Tail(groups), env)

\* Marker(marker_expr).evaluate(environment=env): "True", "False" or "raise".
MarkerEvaluate(expr, env) ==
    IF \E i \in 1..Len(expr) : expr[i].t = "atom" /\ ~StdParses(expr[i], env)
    THEN "raise"
    ELSE StdAny(SplitOn(expr, Tok("or")), env)

\* _evaluate_marker without its try/except: an error of the library escapes.
EvaluateMarkerUnguarded(expr, odoo, py) ==
    IF expr = <<>> THEN "True"
    ELSE IF ~MentionsOdooVersion(expr)
    THEN MarkerEvaluate(expr, MarkerEnv(py))
    ELSE IF _evaluate_version_expr(expr, MarkerEnv(py) @@ [odoo_version |-> odoo])
    THEN "True" ELSE "False"

_evaluate_marker(expr, odoo, py) ==
    IF expr = <<>> THEN "True"
    ELSE IF ~MentionsOdooVersion(expr)
    THEN IF MarkerEvaluate(expr, MarkerEnv(py)) = "True" THEN "True" ELSE "False"
    ELSE IF _evaluate_version_expr(expr, MarkerEnv(py) @@ [odoo_version |-> odoo])
    THEN "True" ELSE "False"

(* ------------------------------------------------- requirements, specifiers *)

\* One clause of a version specifier; v numbers the versions 0.5, 1.0, 2.0, 3.0
\* in increasing order.
Clause(op, v) == [op |-> op, v |-> v]

\* A line of requirement text.  kind is "blank", "comment" (the line starts
\* with '#') or "text".  For text: name is its leading run of name characters
\* ("" when it starts with another character), spec the specifier clauses
\* written after the name, marker the expression after ';' (<<>> when there is
\* no ';'), comment whether a '#...' suffix follows, and syntax whether the
\* part before ';' is a well-formed name and specifier.
Line(kind, name, spec, marker, comment, syntax) ==
    [kind |-> kind, name |-> name, spec |-> spec, marker |-> marker,
     comment |-> comment, syntax |-> syntax]

BlankLine == Line("blank", "", {}, <<>>, FALSE, "ok")

\* str.lower() on the names the model uses.
Lower(name) == IF name = "Pkg" THEN "pkg" ELSE name

\* SpecifierSet.__and__: the clauses of both.
SpecifierAnd(a, b) == a \union b

\* The environment create_odoo_venv evaluates requirement markers in.
target_env_for_markers(py) ==
    IF py # None
    THEN [python_version |-> MajorMinor(py), python_full_version |-> py]
    ELSE [python_version |-> default_environment.python_version,
          python_full_version |-> default_environment.python_full_version]

\* Requirement(text) does not raise InvalidRequirement.
RequirementParses(l) ==
    /\ l.syntax = "ok"
    /\ l.name # ""
    /\ \A i \in 1..Len(l.marker) :
           l.marker[i].t = "atom" => StdParses(l.marker[i], default_environment)

\* _keep_if_marker_matches: res is "invalid" (InvalidRequirement raised),
\* "raise" (another exception), "None", or "line" with the text returned.
_keep_if_marker_matches(l, env) ==
    IF ~RequirementParses(l)
    THEN [res |-> "invalid", line |-> BlankLine]
    ELSE LET m == IF l.marker = <<>> THEN "True" ELSE MarkerEvaluate(l.marker, env)
         IN  IF m = "raise" THEN [res |-> "raise", line |-> BlankLine]
             ELSE IF m = "False" THEN [res |-> "None", line |-> BlankLine]
             ELSE [res |-> "line",
                   line |-> Line("text", l.name, l.spec, <<>>, FALSE, "ok")]

\* The test of one ignore requirement without its first disjunct: an entry
\* with no specifier is compared like any other.
IgnoredByNoEmptyCase(req_specifier, ignored_specifier) ==
    req_specifier # {}
        /\ SpecifierAnd(req_specifier, ignored_specifier) = req_specifier

\* The test _process_requirement_line applies to one ignore requirement.
IgnoredBy(req_specifier, ignored_specifier) ==
    \/ ignored_specifier = {}
    \/ (req_specifier # {}
          /\ SpecifierAnd(req_specifier, ignored_specifier) = req_specifier)

\* A pattern that matches no line.
PkgNamePatternNoMatch(l) == [matched |-> FALSE, lib_name |-> ""]

\* PKG_NAME_PATTERN.match(req_line): a line that starts with a name character
\* matches, and lib_name is the leading run of name characters.
PKG_NAME_PATTERN(l) == [matched |-> l.name # "", lib_name |-> l.name]

\* _process_requirement_line: ret is what the call does ("True", "False", or
\* "raise" for an exception that escapes), out the lines it writes.
_process_requirement_line(l, ignored, env) ==
    IF l.kind # "text" THEN [ret |-> "False", out |-> <<>>]
    ELSE LET k == _keep_if_marker_matches(l, env)
         IN  CASE k.res = "raise" -> [ret |-> "raise", out |-> <<>>]
               [] k.res = "None" -> [ret |-> "False", out |-> <<>>]
               [] k.res = "line" ->
                    LET key == Lower(k.line.name)
                        should_ignore ==
                            /\ key \in DOMAIN ignored
                            /\ \E i \in 1..Len(ignored[key]) :
                                   IgnoredBy(k.line.spec, ignored[key][i].spec)
                    IN  IF should_ignore
                        THEN [ret |-> "False", out |-> <<>>]
                        ELSE [ret |-> "True", out |-> <<k.line>>]
               [] k.res = "invalid" ->
                    LET match == PKG_NAME_PATTERN(l)
                    IN  IF match.matched /\ Lower(match.lib_name) \in DOMAIN ignored
                        THEN [ret |-> "False", out |-> <<>>]
                        ELSE [ret |-> "True", out |-> <<l>>]

\* The ignore entries create_odoo_venv keeps: parseable, marker absent or true.
IgnoreEntryKept(e, env) ==
    /\ RequirementParses(e)
    /\ (e.marker = <<>> \/ MarkerEvaluate(e.marker, env) = "True")

\* ignored_req_map as create_odoo_venv builds it from ignore_req_lines.
BuildIgnoredReqMap(lines, env) ==
    LET kept == SelectSeq(lines, LAMBDA e : IgnoreEntryKept(e, env))
        keys == {Lower(kept[i].name) : i \in 1..Len(kept)}
        strip(e) == Line("text", e.name, e.spec, <<>>, FALSE, "ok")
        OfKey(n) == SelectSeq(kept, LAMBDA e : Lower(e.name) = n)
    IN  [n \in keys |-> [i \in 1..Len(OfKey(n)) |-> strip(OfKey(n)[i])]]

(* ------------------------------------------------------ stage commands *)

\* A value for a key the mapping does not hold (dict.get returns None).
Absent == "<absent>"

VALID_STAGES == {"after_venv", "after_requirements", "after_odoo_install"}

\* An extra command spec.  stage is a stage name or Absent; when is a marker
\* expression (<<>> when the key is absent); command is "list" (a non-empty
\* list), "empty_list", "string" (not a list) or Absent.
Cmd(stage, when, command) == [stage |-> stage, when |-> when, command |-> command]

\* One entry of run_log.  what is "venv", "install_reqs", "install_odoo" or
\* "hook" for a call of _run_command, "stage" for an invocation of
\* _run_commands_for_stage and "remove_tmp" for os.remove(tmp_path).
Event(what, idx, stage, started, rc) ==
    [what |-> what, idx |-> idx, stage |-> stage, started |-> started, rc |-> rc]

\* _run_command returning whatever the subprocess's status is.
RunCommandIgnoringStatus(what, idx, stage, dry, rc) ==
    IF dry
    THEN [event |-> Event(what, idx, stage, FALSE, 0), exited |-> FALSE]
    ELSE [event |-> Event(what, idx, stage, TRUE, rc), exited |-> FALSE]

\* _run_command: nothing is started in a dry run; otherwise the subprocess
\* runs, ends with status rc, and a non-zero status raises SystemExit.
_run_command(what, idx, stage, dry, rc) ==
    IF dry
    THEN [event |-> Event(what, idx, stage, FALSE, 0), exited |-> FALSE]
    ELSE [event |-> Event(what, idx, stage, TRUE, rc), exited |-> rc # 0]

\* _validate_cmd_spec with a spec that has no stage taken to match any stage.
ValidateCmdSpecAbsentMatches(cmd_spec, i, stage, is_first) ==
    [run  |-> cmd_spec.stage = Absent \/ cmd_spec.stage = stage,
     warn |-> is_first /\ cmd_spec.stage # Absent
                /\ cmd_spec.stage \notin VALID_STAGES]

\* _validate_cmd_spec: whether the command runs at this stage, and whether the
\* unknown-stage warning is printed.
_validate_cmd_spec(cmd_spec, i, stage, is_first) ==
    [run  |-> cmd_spec.stage # Absent /\ cmd_spec.stage = stage,
     warn |-> is_first /\ cmd_spec.stage # Absent
                /\ cmd_spec.stage \notin VALID_STAGES]

\* The command test rejecting only a missing command field.
InvalidCommandOnlyMissing(command) == command = Absent

\* Line 162: not command or not isinstance(command, list).
InvalidCommand(command) == command # "list"

Warning(kind, idx, stage) == [kind |-> kind, idx |-> idx, stage |-> stage]

\* The loop of _run_commands_for_stage from list position i on (i = 1 is the
\* code's index 0).  rcs[i] is the status the subprocess of command i would
\* end with.  events: the calls made; warns: the warnings printed; aborted:
\* a command failed and _handle_cmd_error exited.
RECURSIVE RunCommandsFrom(_, _, _, _, _, _, _)
RunCommandsFrom(i, stage, cmds, odoo, py, dry, rcs) ==
    IF i > Len(cmds)
    THEN [events |-> <<>>, warns |-> <<>>, aborted |-> FALSE]
    ELSE LET cmd_spec == cmds[i]
             v == _validate_cmd_spec(cmd_spec, i - 1, stage, i = 1)
             w == IF v.warn THEN <<Warning("unknown_stage", i, stage)>> ELSE <<>>
             rest == RunCommandsFrom(i + 1, stage, cmds, odoo, py, dry, rcs)
             skip(ws) == [events |-> rest.events, warns |-> ws \o rest.warns,
                          aborted |-> rest.aborted]
         IN  IF ~v.run THEN skip(w)
             ELSE IF _evaluate_marker(cmd_spec.when, odoo, py) # "True" THEN skip(w)
             ELSE IF InvalidCommand(cmd_spec.command)
             THEN skip(w \o <<Warning("invalid_command", i, stage)>>)
             ELSE LET r == _run_command("hook", i, stage, dry, rcs[i])
                  IN  IF r.exited
                      THEN [events |-> <<r.event>>, warns |-> w, aborted |-> TRUE]
                      ELSE [events |-> <<r.event>> \o rest.events,
                            warns |-> w \o rest.warns,
                            aborted |-> rest.aborted]

\* _run_commands_for_stage
_run_commands_for_stage(stage, cmds, odoo, py, dry, rcs) ==
    IF cmds = <<>>
    THEN [events |-> <<>>, warns |-> <<>>, aborted |-> FALSE]
    ELSE RunCommandsFrom(1, stage, cmds, odoo, py, dry, rcs)

(* ------------------------------------------------- requirement aggregation *)

\* The requirement sources and ignore options of one run, here with nothing
\* to read.  A file that does not exist, or a list that is None, is the empty
\* sequence.
NoSources ==
    [install_odoo_requirements |-> TRUE,
     odoo_reqs_file |-> <<>>,
     install_addons_dirs_requirements |-> FALSE,
     addons_req_files |-> <<>>,
     extra_requirements |-> <<>>,
     extra_requirements_file |-> <<>>,
     install_addons_manifests_requirements |-> FALSE,
     manifest_deps |-> <<>>,
     ignore_from_odoo_requirements |-> <<>>,
     ignore_from_addons_dirs_requirements |-> <<>>,
     ignore_from_addons_manifests_requirements |-> <<>>]

RECURSIVE Flatten(_)
Flatten(seqs) == IF seqs = <<>> THEN <<>> ELSE Head(seqs) \o Flatten(Tail(seqs))

\* ignore_req_lines filled from the first ignore option alone.
IgnoreReqLinesOdooOnly(src) == src.ignore_from_odoo_requirements

\* ignore_req_lines: the entries of the three ignore options, in this order.
IgnoreReqLines(src) ==
    src.ignore_from_odoo_requirements
        \o src.ignore_from_addons_dirs_requirements
        \o src.ignore_from_addons_manifests_requirements

\* The candidate lines with the inline extra requirements read first.
CandidateLinesExtrasFirst(src) ==
    src.extra_requirements
        \o (IF src.install_odoo_requirements THEN src.odoo_reqs_file ELSE <<>>)
        \o (IF src.install_addons_dirs_requirements
            THEN Flatten(src.addons_req_files) ELSE <<>>)
        \o src.extra_requirements_file
        \o (IF src.install_addons_manifests_requirements
            THEN Flatten(src.manifest_deps) ELSE <<>>)

\* The candidate lines in the order create_odoo_venv reads them.
CandidateLines(src) ==
    (IF src.install_odoo_requirements THEN src.odoo_reqs_file ELSE <<>>)
        \o (IF src.install_addons_dirs_requirements
            THEN Flatten(src.addons_req_files) ELSE <<>>)
        \o src.extra_requirements
        \o src.extra_requirements_file
        \o (IF src.install_addons_manifests_requirements
            THEN Flatten(src.manifest_deps) ELSE <<>>)

\* The with-block counting every candidate line, written or not.
ProcessLinesCountAll(lines, ignored, env) ==
    [out |-> Flatten([i \in 1..Len(lines) |->
                         _process_requirement_line(lines[i], ignored, env).out]),
     count |-> Len(lines),
     raised |-> \E i \in 1..Len(lines) :
                    _process_requirement_line(lines[i], ignored, env).ret = "raise"]

\* The body of the with-block: every candidate line through
\* _process_requirement_line, in order, until an exception escapes (raised).
ProcessLines(lines, ignored, env) ==
    LET results == [i \in 1..Len(lines) |->
                        _process_requirement_line(lines[i], ignored, env)]
        stop == IF \E i \in 1..Len(lines) : results[i].ret = "raise"
                THEN CHOOSE i \in 1..Len(lines) :
                         /\ results[i].ret = "raise"
                         /\ \A j \in 1..(i - 1) : results[j].ret # "raise"
                ELSE Len(lines) + 1
    IN  [out |-> Flatten([i \in 1..(stop - 1) |-> results[i].out]),
         count |-> Cardinality({i \in 1..(stop - 1) : results[i].ret = "True"}),
         raised |-> stop <= Len(lines)]

(* ------------------------------------------------------------ input sets *)

OdooVersions == {<<"1", "4", ".", "0">>, <<"1", "7", ".", "0">>, <<"1", "8", ".", "0">>}

PythonVersions == {None, <<"3", ".", "1", "0", ".", "4">>}

Atoms ==
    { Atom("odoo_version", ">=", <<"1", "6", ".", "0">>, "cmp"),
      Atom("odoo_version", "<",  <<"1", "8", ".", "0">>, "cmp"),
      Atom("odoo_version", "==", <<"1", "3", ".", "0">>, "cmp"),
      Atom("odoo_version", "==", <<"1", "4", ".", "0">>, "cmp"),
      Atom("odoo_version", "<",  <<"9", ".", "0">>, "cmp"),
      Atom("odoo_version", "!=", <<"x">>, "cmp"),
      Atom("odoo_version", "<=", <<"1", "7", ".", "0">>, "noquote"),
      Atom("foo", "!=", <<"1", "4", ".", "0">>, "cmp"),
      Atom("python_version", ">", <<"3", ".", "9">>, "cmp"),
      Atom("python_version", "<", <<"3", ".", "9">>, "trailing"),
      Atom("odoo_version", ">=", <<"1", "6", ".", "0">>, "trailing"),
      Atom("python_version", ">=", <<"x">>, "reversed") }

RECURSIVE ExprsOfLen(_)
ExprsOfLen(n) ==
    IF n = 0 THEN {<<>>}
    ELSE IF n = 1 THEN {<<a>> : a \in Atoms}
    ELSE {e \o <<Tok(c), a>> : e \in ExprsOfLen(n - 1), c \in {"and", "or"}, a \in Atoms}

\* The expressions of at most n comparisons.
ExprsUpTo(n) == UNION {ExprsOfLen(k) : k \in 0..n}

\* Markers written on requirement lines: none, one that holds and one that
\* fails for every interpreter of PythonVersions, one on odoo_version, and one
\* whose literal is not quoted.
LineMarkers ==
    { <<>>,
      <<Atom("python_version", ">", <<"3", ".", "9">>, "cmp")>>,
      <<Atom("python_version", "<", <<"3", ".", "9">>, "cmp")>>,
      <<Atom("odoo_version", ">=", <<"1", "6", ".", "0">>, "cmp")>>,
      <<Atom("python_version", ">=", <<"3", ".", "8">>, "noquote")>> }

LineSpecs ==
    { {}, {Clause(">=", 0)}, {Clause(">=", 1)}, {Clause(">=", 2)},
      {Clause("==", 2)}, {Clause(">=", 1), Clause("<", 3)} }

IgnoreSpecs == { {}, {Clause(">=", 1)} }

Lines ==
    {BlankLine, Line("comment", "", {}, <<>>, TRUE, "ok")}
    \union {Line("text", n, s, m, c, "ok") :
               n \in {"pkg", "Pkg", "lib"}, s \in LineSpecs, m \in LineMarkers,
               c \in BOOLEAN}
    \union {Line("text", n, {}, m, c, "bad") :
               n \in {"pkg", "Pkg", "lib", ""},
               m \in {<<>>, <<Atom("python_version", "<", <<"3", ".", "9">>, "cmp")>>},
               c \in BOOLEAN}

IgnoreEntries ==
    {Line("text", n, s, <<>>, FALSE, "ok") : n \in {"pkg", "Pkg"}, s \in IgnoreSpecs}
    \union {Line("text", "pkg", {},
                  <<Atom("python_version", "<", <<"3", ".", "9">>, "cmp")>>, FALSE, "ok"),
             Line("text", "pkg", {}, <<>>, FALSE, "bad")}

RECURSIVE SeqsUpTo(_, _)
SeqsUpTo(S, n) ==
    IF n = 0 THEN {<<>>}
    ELSE SeqsUpTo(S, n - 1)
           \union {q \o <<x>> : q \in {r \in SeqsUpTo(S, n - 1) : Len(r) = n - 1}, x \in S}

IdleMarker == marker_expr = <<>> /\ marker_result = "unset"

IdleLine ==
    /\ ignore_req_lines = <<>>
    /\ ignored_req_map = <<>>
    /\ req_line = BlankLine
    /\ line_ret = "unset"
    /\ tmp_file = <<>>
    /\ req_count = 0

\* Nothing of the preset files or of the command line is in play.
IdlePreset ==
    /\ default_doc = <<>>
    /\ user_file = [exists |-> FALSE, doc |-> <<>>]
    /\ presets = <<>>

IdleCli ==
    /\ argv = <<>>
    /\ default_map = <<>>
    /\ ctx_obj = <<>>
    /\ create_kwargs = <<>>

IdleRun ==
    /\ IdlePreset
    /\ IdleCli
    /\ pc = "idle"
    /\ extra_commands = <<>>
    /\ dry_run = FALSE
    /\ install_odoo = TRUE
    /\ sources = NoSources
    /\ run_log = <<>>
    /\ warnings = <<>>
    /\ tmp_state = "absent"
    /\ exit_status = "running"

(* ------------------------------------------- marker evaluation, on its own *)

InitMarker ==
    /\ odoo_version \in OdooVersions
    /\ python_version \in PythonVersions
    /\ marker_expr \in ExprsUpTo(MaxAtoms)
    /\ marker_result = "unset"
    /\ IdleLine
    /\ IdleRun

EvaluateMarker ==
    /\ marker_result = "unset"
    /\ marker_result' = _evaluate_marker(marker_expr, odoo_version, python_version)
    /\ UNCHANGED <<presetVars, cliVars, odoo_version, python_version, marker_expr, lineVars,
                   tmp_file, req_count, runVars>>

NextMarker == EvaluateMarker

SpecMarker == InitMarker /\ [][NextMarker]_vars

(* ----------------------------------- one requirement line, on its own *)

InitLine ==
    /\ odoo_version \in OdooVersions
    /\ python_version \in PythonVersions
    /\ IdleMarker
    /\ ignore_req_lines \in SeqsUpTo(IgnoreEntries, MaxIgnore)
    /\ ignored_req_map =
           BuildIgnoredReqMap(ignore_req_lines, target_env_for_markers(python_version))
    /\ req_line \in Lines
    /\ line_ret = "unset"
    /\ tmp_file = <<>>
    /\ req_count = 0
    /\ IdleRun

\* One call of _process_requirement_line as create_odoo_venv makes it: the
\* line is written or not, and the count follows the value returned.
ProcessLine ==
    /\ line_ret = "unset"
    /\ LET r == _process_requirement_line(req_line, ignored_req_map,
                                          target_env_for_markers(python_version))
       IN  /\ line_ret' = r.ret
           /\ tmp_file' = tmp_file \o r.out
           /\ req_count' = IF r.ret = "True" THEN req_count + 1 ELSE req_count
    /\ UNCHANGED <<presetVars, cliVars, odoo_version, python_version, markerVars,
                   ignore_req_lines, ignored_req_map, req_line, runVars>>

NextLine == ProcessLine

SpecLine == InitLine /\ [][NextLine]_vars

(* ------------------------------------------------------- create_odoo_venv *)

RunOdooVersions == {<<"1", "4", ".", "0">>, <<"1", "7", ".", "0">>}

RunPythonVersions == {None, <<"3", ".", "1", "0", ".", "4">>, <<"3", ".", "6">>}

\* What _get_python_version_from_odoo_src may find in the Odoo source.
DetectedPythonVersions == {None, <<"3", ".", "6">>}

OdooGe16 == <<Atom("odoo_version", ">=", <<"1", "6", ".", "0">>, "cmp")>>

Commands ==
    { Cmd(Absent, <<>>, "list"),
      Cmd("after_venv", <<>>, "list"),
      Cmd("after_requirements", OdooGe16, "list"),
      Cmd("after_odoo_install", <<>>, "list"),
      Cmd("after_instal", <<>>, "list"),
      Cmd("after_venv", <<>>, Absent),
      Cmd("after_requirements", OdooGe16, "string") }

PlainLine(name, spec) == Line("text", name, spec, <<>>, FALSE, "ok")

\* What a run may find to read: nothing; a core file whose only requirement is
\* not covered by the ignore entry; one whose requirement is ignored; the same
\* package from three sources, one of them a manifest.; an inline requirement
\* whose marker makes the library raise when it is evaluated; the package lib
\* in all five kinds of source and named by one ignore option only.
RunSources ==
    { NoSources,
      [NoSources EXCEPT
          !.odoo_reqs_file = <<Line("comment", "", {}, <<>>, TRUE, "ok"),
                               PlainLine("pkg", {Clause(">=", 0)})>>,
          !.ignore_from_odoo_requirements = <<PlainLine("pkg", {Clause(">=", 1)})>>],
      [NoSources EXCEPT
          !.odoo_reqs_file = <<PlainLine("Pkg", {Clause(">=", 2)})>>,
          !.ignore_from_addons_manifests_requirements = <<PlainLine("pkg", {})>>],
      [NoSources EXCEPT
          !.odoo_reqs_file = <<PlainLine("lib", {})>>,
          !.install_addons_dirs_requirements = TRUE,
          !.addons_req_files = <<<<PlainLine("lib", {Clause(">=", 1)})>>,
                                 <<PlainLine("pkg", {})>>>>,
          !.extra_requirements = <<PlainLine("lib", {Clause("==", 2)})>>,
          !.extra_requirements_file = <<PlainLine("lib", {Clause(">=", 0)})>>,
          !.install_addons_manifests_requirements = TRUE,
          !.manifest_deps = <<<<Line("text", "lib", {}, <<>>, FALSE, "bad")>>>>],
      [NoSources EXCEPT
          !.extra_requirements =
              <<PlainLine("lib", {}),
                Line("text", "pkg", {},
                     <<Atom("python_version", "<", <<"x">>, "reversed")>>,
                     FALSE, "ok")>>],
      [NoSources EXCEPT
          !.odoo_reqs_file = <<PlainLine("lib", {})>>,
          !.install_addons_dirs_requirements = TRUE,
          !.addons_req_files = <<<<PlainLine("lib", {Clause(">=", 1)})>>,
                                 <<PlainLine("pkg", {})>>>>,
          !.extra_requirements = <<PlainLine("lib", {Clause("==", 2)})>>,
          !.extra_requirements_file = <<PlainLine("lib", {Clause(">=", 0)})>>,
          !.install_addons_manifests_requirements = TRUE,
          !.manifest_deps = <<<<Line("text", "lib", {}, <<>>, FALSE, "bad")>>>>,
          !.ignore_from_addons_dirs_requirements = <<PlainLine("lib", {})>>] }

Init ==
    /\ odoo_version \in RunOdooVersions
    /\ python_version \in RunPythonVersions
    /\ IdleMarker
    /\ IdleLine
    /\ IdlePreset
    /\ IdleCli
    /\ pc = "start"
    /\ extra_commands \in SeqsUpTo(Commands, MaxCmds)
    /\ dry_run \in BOOLEAN
    /\ install_odoo \in BOOLEAN
    /\ sources = NoSources
    /\ run_log = <<>>
    /\ warnings = <<>>
    /\ tmp_state = "absent"
    /\ exit_status = "running"

aggVars == <<sources, ignore_req_lines, ignored_req_map, tmp_file, req_count, tmp_state>>

\* sys.exit(1), or an exception that ends the process.
Exit1 == pc' = "exited" /\ exit_status' = "1"

\* The version test with 3.6 as the lowest refused version's successor.
UnsupportedPythonBelow36(py) ==
    /\ py # None
    /\ VersionCmp(parse_version(MajorMinor(py)), parse_version(<<"3", ".", "6">>)) < 0

\* Lines 325-327: a version is given and its major.minor is below 3.7.
UnsupportedPython(py) ==
    /\ py # None
    /\ VersionCmp(parse_version(MajorMinor(py)), parse_version(<<"3", ".", "7">>)) < 0

\* Lines 318-340: the interpreter version, and the refusal of one below 3.7.
DeterminePythonVersion ==
    /\ pc = "start"
    /\ \E detected \in DetectedPythonVersions :
           LET py == IF python_version = None THEN detected ELSE python_version
           IN  /\ python_version' = py
               /\ IF UnsupportedPython(py)
                  THEN Exit1
                  ELSE pc' = "create_venv" /\ UNCHANGED exit_status
    /\ UNCHANGED <<presetVars, cliVars, odoo_version, markerVars, lineVars, aggVars, extra_commands,
                   dry_run, install_odoo, run_log, warnings>>

\* Lines 342-354: uv venv.
CreateVenv ==
    /\ pc = "create_venv"
    /\ \E rc \in {0, 1} :
           LET r == _run_command("venv", 0, "", dry_run, rc)
           IN  /\ run_log' = Append(run_log, r.event)
               /\ IF r.exited THEN Exit1
                  ELSE pc' = "after_venv" /\ UNCHANGED exit_status
    /\ UNCHANGED <<presetVars, cliVars, odoo_version, python_version, markerVars, lineVars, aggVars,
                   extra_commands, dry_run, install_odoo, warnings>>

\* One invocation of _run_commands_for_stage by create_odoo_venv.
RunStage(stage, next_pc) ==
    /\ pc = stage
    /\ \E rcs \in [1..Len(extra_commands) -> {0, 1}] :
           LET r == _run_commands_for_stage(stage, extra_commands, odoo_version,
                                            python_version, dry_run, rcs)
           IN  /\ run_log' = run_log \o <<Event("stage", 0, stage, FALSE, 0)>> \o r.events
               /\ warnings' = warnings \o r.warns
               /\ IF r.aborted THEN Exit1
                  ELSE /\ pc' = next_pc
                       /\ exit_status' = IF next_pc = "done" THEN "0" ELSE exit_status
    /\ UNCHANGED <<presetVars, cliVars, odoo_version, python_version, markerVars, lineVars, aggVars,
                   extra_commands, dry_run, install_odoo>>

\* Lines 356-365.
AfterVenv == RunStage("after_venv", "aggregate")

\* Lines 367-444: the sources are read, the ignore map is built and every
\* candidate line is processed into the temporary file.
Aggregate ==
    /\ pc = "aggregate"
    /\ \E src \in RunSources :
           LET env == target_env_for_markers(python_version)
               ign == IgnoreReqLines(src)
               map == BuildIgnoredReqMap(ign, env)
               r == ProcessLines(CandidateLines(src), map, env)
           IN  /\ sources' = src
               /\ ignore_req_lines' = ign
               /\ ignored_req_map' = map
               /\ tmp_file' = r.out
               /\ req_count' = r.count
               /\ tmp_state' = "exists"
               /\ IF r.raised THEN Exit1
                  ELSE pc' = "install_reqs" /\ UNCHANGED exit_status
    /\ UNCHANGED <<presetVars, cliVars, odoo_version, python_version, markerVars, req_line, line_ret,
                   extra_commands, dry_run, install_odoo, run_log, warnings>>

\* The install step without the os.remove(tmp_path) that follows it.
InstallRequirementsKeepFile ==
    /\ pc = "install_reqs"
    /\ \E rc \in {0, 1} :
           IF req_count > 0
           THEN /\ run_log' = Append(run_log,
                                     _run_command("install_reqs", 0, "", dry_run, rc).event)
                /\ IF _run_command("install_reqs", 0, "", dry_run, rc).exited
                   THEN Exit1
                   ELSE pc' = "after_requirements" /\ UNCHANGED exit_status
           ELSE /\ pc' = "after_requirements"
                /\ UNCHANGED <<run_log, exit_status>>
    /\ UNCHANGED <<presetVars, cliVars, odoo_version, python_version, markerVars,
                   lineVars, sources, tmp_file, req_count, tmp_state,
                   extra_commands, dry_run, install_odoo, warnings>>

\* Lines 446-473: uv pip install -r when a line was emitted, then os.remove.
InstallRequirements ==
    /\ pc = "install_reqs"
    /\ \E rc \in {0, 1} :
           LET r == _run_command("install_reqs", 0, "", dry_run, rc)
               removed == Event("remove_tmp", 0, "", FALSE, 0)
           IN  IF req_count > 0
               THEN IF r.exited
                    THEN /\ run_log' = Append(run_log, r.event)
                         /\ Exit1
                         /\ UNCHANGED tmp_state
                    ELSE /\ run_log' = run_log \o <<r.event, removed>>
                         /\ tmp_state' = "removed"
                         /\ pc' = "after_requirements"
                         /\ UNCHANGED exit_status
               ELSE /\ run_log' = Append(run_log, removed)
                    /\ tmp_state' = "removed"
                    /\ pc' = "after_requirements"
                    /\ UNCHANGED exit_status
    /\ UNCHANGED <<presetVars, cliVars, odoo_version, python_version, markerVars, lineVars, sources,
                   tmp_file, req_count, extra_commands, dry_run, install_odoo,
                   warnings>>

\* Lines 475-487.
AfterRequirements == RunStage("after_requirements", "install_odoo")

\* The editable-install step with the after_odoo_install stage outside the
\* "if install_odoo" block.
InstallOdooStageOutsideIf ==
    /\ pc = "install_odoo"
    /\ \E rc \in {0, 1} :
           IF install_odoo
           THEN /\ run_log' = Append(run_log,
                                     _run_command("install_odoo", 0, "", dry_run, rc).event)
                /\ IF _run_command("install_odoo", 0, "", dry_run, rc).exited
                   THEN Exit1
                   ELSE pc' = "after_odoo_install" /\ UNCHANGED exit_status
           ELSE /\ pc' = "after_odoo_install"
                /\ UNCHANGED <<run_log, exit_status>>
    /\ UNCHANGED <<presetVars, cliVars, odoo_version, python_version, markerVars, lineVars, aggVars,
                   extra_commands, dry_run, install_odoo, warnings>>

\* Lines 489-500: uv pip install -e, when install_odoo.
InstallOdoo ==
    /\ pc = "install_odoo"
    /\ \E rc \in {0, 1} :
           LET r == _run_command("install_odoo", 0, "", dry_run, rc)
           IN  IF install_odoo
               THEN /\ run_log' = Append(run_log, r.event)
                    /\ IF r.exited THEN Exit1
                       ELSE pc' = "after_odoo_install" /\ UNCHANGED exit_status
               ELSE /\ pc' = "done"
                    /\ exit_status' = "0"
                    /\ UNCHANGED run_log
    /\ UNCHANGED <<presetVars, cliVars, odoo_version, python_version, markerVars, lineVars, aggVars,
                   extra_commands, dry_run, install_odoo, warnings>>

\* Lines 502-516.
AfterOdooInstall == RunStage("after_odoo_install", "done")

Next ==
    \/ DeterminePythonVersion
    \/ CreateVenv
    \/ AfterVenv
    \/ Aggregate
    \/ InstallRequirements
    \/ AfterRequirements
    \/ InstallOdoo
    \/ AfterOdooInstall

Spec == Init /\ [][Next]_vars

(* ------------------------------------------------------ presets (utils.py) *)

\* A preset document is a function from section names to option dicts, and an
\* option dict a function from the keys it holds to their values (TOML has no
\* null, so a key a section does not set is outside the DOMAIN).  A text value
\* is a sequence of tokens: "foo" is <<"foo">>, "foo,bar" is
\* <<"foo", ",", "bar">>, "" is <<>>.  A list of commands is a sequence of
\* command names.

string_list_fields ==
    { "ignore_from_odoo_requirements",
      "ignore_from_addons_dirs_requirements",
      "ignore_from_addons_manifests_requirements",
      "extra_requirement" }

list_fields == {"extra_commands"}

CommandNames == {"A", "B", "C"}

\* isinstance(v, list)
IsList(v) == v \in Seq(CommandNames)

\* Lines 94-96: the common options but description (no value is None).
CommonApplied(common_options) ==
    [k \in DOMAIN common_options \ {"description"} |-> common_options[k]]

\* The list branch putting the preset's entries first.
MergedValuePresetFirst(merged_options, key, val) ==
    IF key \in list_fields /\ key \in DOMAIN merged_options /\ merged_options[key] # <<>>
    THEN IF IsList(merged_options[key]) /\ IsList(val)
         THEN val \o merged_options[key]
         ELSE val
    ELSE IF key \in string_list_fields /\ key \in DOMAIN merged_options
               /\ merged_options[key] # <<>>
    THEN merged_options[key] \o <<",">> \o val
    ELSE val

\* Lines 103-112: the value merged_options[key] gets from the preset's val.
MergedValue(merged_options, key, val) ==
    IF key \in list_fields /\ key \in DOMAIN merged_options /\ merged_options[key] # <<>>
    THEN IF IsList(merged_options[key]) /\ IsList(val)
         THEN merged_options[key] \o val
         ELSE val
    ELSE IF key \in string_list_fields /\ key \in DOMAIN merged_options
               /\ merged_options[key] # <<>>
    THEN merged_options[key] \o <<",">> \o val
    ELSE val

\* _merge_preset_options letting the common value win over the preset's.
MergePresetOptionsCommonWins(common_options, preset_options) ==
    [k \in (DOMAIN common_options \ {"description"}) \cup DOMAIN preset_options |->
        IF k \in DOMAIN common_options /\ k # "description"
        THEN common_options[k]
        ELSE preset_options[k]]

\* _merge_preset_options
_merge_preset_options(common_options, preset_options) ==
    [k \in (DOMAIN common_options \ {"description"}) \cup DOMAIN preset_options |->
        IF k \in DOMAIN preset_options
        THEN MergedValue(CommonApplied(common_options), k, preset_options[k])
        ELSE common_options[k]]

\* The dataclass Preset with its field defaults.
Preset ==
    [description |-> None,
     install_odoo |-> TRUE,
     install_odoo_requirements |-> TRUE,
     ignore_from_odoo_requirements |-> None,
     install_addons_dirs_requirements |-> FALSE,
     ignore_from_addons_dirs_requirements |-> None,
     install_addons_manifests_requirements |-> FALSE,
     ignore_from_addons_manifests_requirements |-> None,
     extra_requirements_file |-> None,
     extra_requirement |-> None,
     extra_commands |-> None]

\* Preset.from_dict: the valid keys of data over the defaults.
from_dict(data) ==
    [k \in DOMAIN Preset |-> IF k \in DOMAIN data THEN data[k] ELSE Preset[k]]

\* The options load_presets builds the Preset of one section from.
SectionOptions(presets_data, name) ==
    IF "common" \in DOMAIN presets_data /\ name # "common"
    THEN _merge_preset_options(presets_data["common"], presets_data[name])
    ELSE presets_data[name]

\* load_presets on the document of the user's presets file.
load_presets(presets_data) ==
    [name \in DOMAIN presets_data |-> from_dict(SectionOptions(presets_data, name))]

\* The dicts that hold nothing, or key k with one of the values Vs.
DictsOver(k, Vs) == {<<>>} \cup {k :> v : v \in Vs}

\* The [common] sections the model reads.
CommonSections ==
    { a @@ b @@ c @@ d @@ e :
        a \in DictsOver("description", {<<"shared settings">>}),
        b \in DictsOver("install_odoo", {TRUE}),
        c \in DictsOver("ignore_from_odoo_requirements", {<<>>, <<"foo">>}),
        d \in DictsOver("extra_requirement", {<<"foo">>}),
        e \in DictsOver("extra_commands", {<<>>, <<"A">>}) }

\* The sections of the preset x.
PresetSections ==
    { a @@ b @@ c @@ d @@ e :
        a \in DictsOver("description", {<<"preset x">>}),
        b \in DictsOver("install_odoo", BOOLEAN),
        c \in DictsOver("ignore_from_odoo_requirements", {<<>>, <<"bar">>}),
        d \in DictsOver("extra_requirement", {<<"bar">>}),
        e \in DictsOver("extra_commands", {<<>>, <<"B">>}) }

\* The documents of the user's presets file: a preset x, with or without a
\* [common] section and a second preset y.
UserDocs ==
    { ("x" :> px) @@ c @@ y :
        px \in PresetSections,
        c \in DictsOver("common", CommonSections),
        y \in DictsOver("y", {"extra_commands" :> <<"C">>}) }

\* The shipped documents: a preset demo, with or without a preset x.
DefaultDocs ==
    { ("demo" :> ("install_odoo" :> FALSE)) @@ x :
        x \in DictsOver("x", {"extra_requirements_file" :> <<"shipped.txt">>}) }

InitPreset ==
    /\ odoo_version = <<"1", "7", ".", "0">>
    /\ python_version = None
    /\ IdleMarker
    /\ IdleLine
    /\ IdleCli
    /\ default_doc \in DefaultDocs
    /\ user_file \in {[exists |-> FALSE, doc |-> <<>>]}
                        \cup {[exists |-> TRUE, doc |-> d] : d \in UserDocs}
    /\ presets = <<>>
    /\ pc = "import"
    /\ extra_commands = <<>>
    /\ dry_run = FALSE
    /\ install_odoo = TRUE
    /\ sources = NoSources
    /\ run_log = <<>>
    /\ warnings = <<>>
    /\ tmp_state = "absent"
    /\ exit_status = "running"

presetUnchanged ==
    <<cliVars, odoo_version, python_version, markerVars, lineVars, tmp_file,
      req_count, extra_commands, dry_run, install_odoo, sources, run_log,
      warnings, tmp_state, exit_status>>

\* initialize_presets (utils.py 61-67), run when cli/main.py is imported: the
\* shipped document is copied when the user has no presets file.
InitializePresets ==
    /\ pc = "import"
    /\ user_file' = IF user_file.exists THEN user_file
                    ELSE [exists |-> TRUE, doc |-> default_doc]
    /\ pc' = "initialized"
    /\ UNCHANGED <<default_doc, presets, presetUnchanged>>

\* One call of load_presets.
LoadPresets ==
    /\ pc = "initialized"
    /\ presets' = load_presets(user_file.doc)
    /\ pc' = "presets_loaded"
    /\ UNCHANGED <<default_doc, user_file, presetUnchanged>>

NextPreset == InitializePresets \/ LoadPresets

SpecPreset == InitPreset /\ [][NextPreset]_vars

(* ------------------------------------------------- the create command *)

\* The options of `create` a preset can give a value to, with the defaults
\* their declarations carry (cli/main.py 115-160).
OptionDefaults ==
    [install_odoo |-> TRUE,
     install_odoo_requirements |-> TRUE,
     ignore_from_odoo_requirements |-> None,
     install_addons_dirs_requirements |-> FALSE,
     ignore_from_addons_dirs_requirements |-> None,
     install_addons_manifests_requirements |-> FALSE,
     ignore_from_addons_manifests_requirements |-> None,
     extra_requirements_file |-> None,
     extra_requirement |-> None]

BoolOptions ==
    { "install_odoo", "install_odoo_requirements",
      "install_addons_dirs_requirements",
      "install_addons_manifests_requirements" }

\* The option resolution with the default map consulted before the flags.
ClickValueDefaultMapFirst(flags, dmap, k) ==
    IF k \in DOMAIN dmap /\ (k \in BoolOptions \/ dmap[k] # None)
    THEN dmap[k]
    ELSE IF k \in DOMAIN flags THEN flags[k]
    ELSE OptionDefaults[k]

\* The value typer/click gives the parameter k of create(): the one passed on
\* the command line, else the one of ctx.default_map unless it is None, else
\* the declared default.
ClickValue(flags, dmap, k) ==
    IF k \in DOMAIN flags THEN flags[k]
    ELSE IF k \in DOMAIN dmap /\ (k \in BoolOptions \/ dmap[k] # None)
    THEN dmap[k]
    ELSE OptionDefaults[k]

\* ODOO_PYTHON_VERSIONS.get(odoo_version), for the versions the model runs.
ODOO_PYTHON_VERSIONS(v) ==
    IF v = <<"1", "4", ".", "0">> THEN <<"3", ".", "8">>
    ELSE IF v = <<"1", "7", ".", "0">> THEN <<"3", ".", "1", "0">>
    ELSE None

\* What a callback leaves behind: whether it raised, ctx.default_map, ctx.obj
\* and the presets it loaded.
CallbackResult(raised, dmap, obj, loaded) ==
    [raised |-> raised, default_map |-> dmap, ctx_obj |-> obj, presets |-> loaded]

\* Lines 37-50 of preset_callback, with all_presets already loaded.
ApplyPreset(value, dmap, obj, all_presets) ==
    IF value \notin DOMAIN all_presets
    THEN CallbackResult(TRUE, dmap, obj, all_presets)
    ELSE CallbackResult(FALSE,
                        all_presets[value] @@ dmap,
                        ("extra_commands" :> all_presets[value].extra_commands) @@ obj,
                        all_presets)

\* preset_callback: value is the preset's name, or Absent when --preset was
\* not passed.
preset_callback(value, dmap, obj, loaded, doc) ==
    IF value = Absent
    THEN CallbackResult(FALSE, dmap, obj, loaded)
    ELSE ApplyPreset(value, dmap, obj, load_presets(doc))

\* Lines 73-74: the project directory is kept on ctx.obj.
StoreProjectDir(r) ==
    IF r.raised THEN r
    ELSE [r EXCEPT !.ctx_obj = ("project_dir" :> TRUE) @@ r.ctx_obj]

\* project_dir_callback: value is whether --project-dir was passed.
project_dir_callback(value, dmap, obj, loaded, doc) ==
    IF ~value
    THEN CallbackResult(FALSE, dmap, obj, loaded)
    ELSE StoreProjectDir(IF dmap = <<>>
                         THEN preset_callback("project", dmap, obj, loaded, doc)
                         ELSE CallbackResult(FALSE, dmap, obj, loaded))

\* The eager parameters in the order click processes them: those passed on
\* the command line in the order they were passed, then the others.
EagerOrder(args) ==
    IF args.project_dir /\ (args.preset = Absent \/ args.project_first)
    THEN <<"project_dir", "preset">>
    ELSE <<"preset", "project_dir">>

\* extra_requirement.split(",") when it is set and not empty (lines 227-232).
extra_requirements_list(extra_requirement) ==
    IF extra_requirement = None \/ extra_requirement = <<>>
    THEN <<>>
    ELSE SplitOn(extra_requirement, ",")

\* The keyword arguments of the call of create_odoo_venv (lines 244-262).
CreateKwargs(flags, dmap, obj, odoo, py) ==
    [odoo_version |-> odoo,
     python_version |-> py,
     install_odoo |-> ClickValue(flags, dmap, "install_odoo"),
     install_odoo_requirements |-> ClickValue(flags, dmap, "install_odoo_requirements"),
     ignore_from_odoo_requirements |->
         ClickValue(flags, dmap, "ignore_from_odoo_requirements"),
     install_addons_dirs_requirements |->
         ClickValue(flags, dmap, "install_addons_dirs_requirements"),
     ignore_from_addons_dirs_requirements |->
         ClickValue(flags, dmap, "ignore_from_addons_dirs_requirements"),
     install_addons_manifests_requirements |->
         ClickValue(flags, dmap, "install_addons_manifests_requirements"),
     ignore_from_addons_manifests_requirements |->
         ClickValue(flags, dmap, "ignore_from_addons_manifests_requirements"),
     extra_requirements_file |-> ClickValue(flags, dmap, "extra_requirements_file"),
     extra_requirements |->
         extra_requirements_list(ClickValue(flags, dmap, "extra_requirement")),
     extra_commands |-> IF obj # <<>> /\ "extra_commands" \in DOMAIN obj
                        THEN obj["extra_commands"] ELSE None]

\* The command lines of the model: the flags passed (never --odoo-dir or
\* --addons-path), --preset, --project-dir and which of the two came first.
FlagSets ==
    { a @@ b @@ c @@ d :
        a \in DictsOver("install_odoo", BOOLEAN),
        b \in DictsOver("ignore_from_odoo_requirements", {<<"cli">>}),
        c \in DictsOver("extra_requirement", {<<"c1", ",", "c2">>}),
        d \in DictsOver("install_addons_dirs_requirements", {FALSE}) }

CommandLines ==
    { [odoo_version |-> o, python_version |-> p, flags |-> f, preset |-> n,
       project_dir |-> d, project_first |-> pf] :
        o \in {None, <<"1", "7", ".", "0">>},
        p \in {None, <<"3", ".", "1", "1">>},
        f \in FlagSets,
        n \in {Absent, "x", "nope"},
        d \in BOOLEAN,
        pf \in BOOLEAN }

\* The user's presets documents of the model's command-line runs.
CliDocs ==
    { ("common" :> ("ignore_from_odoo_requirements" :> <<"foo">>))
        @@ ("x" :> ( ("install_odoo" :> FALSE)
                      @@ ("ignore_from_odoo_requirements" :> <<"bar">>)
                      @@ ("extra_commands" :> <<"B">>) ))
        @@ ("project" :> ( ("install_addons_dirs_requirements" :> TRUE)
                            @@ ("extra_requirement" :> <<"p1", ",", "p2">>) )),
      ("x" :> ("extra_requirement" :> <<"a", ",", "b">>)),
      ("x" :> ("description" :> <<"preset x">>))
        @@ ("project" :> ("install_odoo_requirements" :> FALSE)) }

InitCli ==
    /\ odoo_version = <<"1", "7", ".", "0">>
    /\ python_version = None
    /\ IdleMarker
    /\ IdleLine
    /\ default_doc \in DefaultDocs
    /\ user_file \in {[exists |-> TRUE, doc |-> d] : d \in CliDocs}
    /\ presets = <<>>
    /\ argv \in {a \in CommandLines :
                    a.project_first => (a.project_dir /\ a.preset # Absent)}
    /\ default_map = <<>>
    /\ ctx_obj = <<>>
    /\ create_kwargs = <<>>
    /\ pc = "eager1"
    /\ extra_commands = <<>>
    /\ dry_run = FALSE
    /\ install_odoo = TRUE
    /\ sources = NoSources
    /\ run_log = <<>>
    /\ warnings = <<>>
    /\ tmp_state = "absent"
    /\ exit_status = "running"

cliUnchanged ==
    <<default_doc, user_file, argv, odoo_version, python_version, markerVars,
      lineVars, tmp_file, req_count, extra_commands, dry_run, install_odoo,
      sources, run_log, warnings, tmp_state>>

\* The state a callback leaves: an exception ends the command.
AfterCallback(r, next_pc) ==
    /\ default_map' = r.default_map
    /\ ctx_obj' = r.ctx_obj
    /\ presets' = r.presets
    /\ IF r.raised THEN Exit1 ELSE pc' = next_pc /\ UNCHANGED exit_status
    /\ UNCHANGED <<create_kwargs, cliUnchanged>>

\* click calls preset_callback when it processes --preset.
PresetCallback ==
    \E n \in {1, 2} :
        /\ pc = <<"eager1", "eager2">>[n]
        /\ EagerOrder(argv)[n] = "preset"
        /\ AfterCallback(preset_callback(argv.preset, default_map, ctx_obj,
                                         presets, user_file.doc),
                         <<"eager2", "create">>[n])

\* click calls project_dir_callback when it processes --project-dir.
ProjectDirCallback ==
    \E n \in {1, 2} :
        /\ pc = <<"eager1", "eager2">>[n]
        /\ EagerOrder(argv)[n] = "project_dir"
        /\ AfterCallback(project_dir_callback(argv.project_dir, default_map,
                                              ctx_obj, presets, user_file.doc),
                         <<"eager2", "create">>[n])

\* The body of create(): the Odoo directory and version are resolved, or the
\* command exits with 1; then create_odoo_venv is called.  has_odoo_dir is
\* what the layout detection found, release what odoo/release.py holds.
Create ==
    /\ pc = "create"
    /\ \E has_odoo_dir \in BOOLEAN, release \in {None, <<"1", "4", ".", "0">>} :
           IF ~("project_dir" \in DOMAIN ctx_obj /\ has_odoo_dir)
                 /\ argv.odoo_version = None
           THEN Exit1 /\ UNCHANGED create_kwargs
           ELSE IF argv.odoo_version = None /\ release = None
           THEN Exit1 /\ UNCHANGED create_kwargs
           ELSE /\ create_kwargs' =
                       CreateKwargs(
                           argv.flags, default_map, ctx_obj,
                           IF argv.odoo_version = None THEN release
                           ELSE argv.odoo_version,
                           IF argv.python_version # None THEN argv.python_version
                           ELSE ODOO_PYTHON_VERSIONS(
                                    IF argv.odoo_version = None THEN release
                                    ELSE argv.odoo_version))
                /\ pc' = "handed"
                /\ UNCHANGED exit_status
    /\ UNCHANGED <<presetVars, default_map, ctx_obj, cliUnchanged>>

NextCli == PresetCallback \/ ProjectDirCallback \/ Create

SpecCli == InitCli /\ [][NextCli]_vars

(* ================================================================ claims *)

\* The environment the custom evaluator reads in the current state.
CurrentVariables == MarkerEnv(python_version) @@ [odoo_version |-> odoo_version]

AtomPositions(expr) == {i \in 1..Len(expr) : expr[i].t = "atom"}

\* Two comparisons belong to the same or-separated group: no " or " between.
SameOrGroup(expr, i, j) ==
    \A k \in 1..Len(expr) :
        (k > i /\ k < j) \/ (k > j /\ k < i) => expr[k].t # "or"

E_16_and_18 ==
    << Atom("odoo_version", ">=", <<"1", "6", ".", "0">>, "cmp"), Tok("and"),
       Atom("odoo_version", "<",  <<"1", "8", ".", "0">>, "cmp") >>

E_13_or_14 ==
    << Atom("odoo_version", "==", <<"1", "3", ".", "0">>, "cmp"), Tok("or"),
       Atom("odoo_version", "==", <<"1", "4", ".", "0">>, "cmp") >>

\* C5: for an expression that references odoo_version, the outcome is true
\* exactly when one of the or-separated groups has all of its and-separated
\* comparisons true ("and" binds tighter than "or"); the range 16.0 <= v < 18.0
\* is true for 17.0 and false for 18.0, and 13.0-or-14.0 is true for 14.0.
C5_AndBindsTighter ==
    (marker_result # "unset" /\ MentionsOdooVersion(marker_expr)) =>
        /\ (marker_result = "True") <=>
              \E i \in AtomPositions(marker_expr) :
                  \A j \in AtomPositions(marker_expr) :
                      SameOrGroup(marker_expr, i, j) =>
                          EvaluateComparison(marker_expr[j], CurrentVariables)
        /\ marker_expr = E_16_and_18 =>
              (marker_result = "True") <=> (odoo_version # <<"1", "8", ".", "0">>
                                             /\ odoo_version # <<"1", "4", ".", "0">>)
        /\ (marker_expr = E_13_or_14 /\ odoo_version = <<"1", "4", ".", "0">>) =>
              marker_result = "True"

\* C5 witness: "a or b and c" evaluated with a true and c false: true only
\* because the " and " is grouped before the " or ".
C5_Witness ==
    /\ marker_result = "True"
    /\ MentionsOdooVersion(marker_expr)
    /\ Len(marker_expr) = 5
    /\ marker_expr[2].t = "or"
    /\ marker_expr[4].t = "and"
    /\ EvaluateComparison(marker_expr[1], CurrentVariables)
    /\ ~EvaluateComparison(marker_expr[5], CurrentVariables)

\* A comparison the marker evaluator cannot use: not of the form
\* var op 'literal', or on a variable the environment does not hold.
UnusableAtom(a) ==
    IF MentionsOdooVersion(marker_expr)
    THEN a.shape # "cmp" \/ a.var \notin DOMAIN CurrentVariables
    ELSE ~StdParses(a, MarkerEnv(python_version))

VersionPoints == 0..4

ClauseHolds(c, v) ==
    CASE c.op = ">=" -> v >= c.v
      [] c.op = "<"  -> v < c.v
      [] c.op = "==" -> v = c.v

Range(spec) == {v \in VersionPoints : \A c \in spec : ClauseHolds(c, v)}

\* The line under processing parsed as a requirement and passed its marker.
FormallyParsed ==
    /\ req_line.kind = "text"
    /\ _keep_if_marker_matches(req_line,
                               target_env_for_markers(python_version)).res = "line"

LineKey == Lower(req_line.name)

\* C1: a formally parsed requirement whose name has ignore entries, all with a
\* specifier, is excluded exactly when its specifier range is contained in the
\* range of one of them (ignore pkg>=1.0: pkg>=2.0 excluded, pkg>=0.5 emitted).
C1_ExcludedIffRangeContained ==
    (/\ line_ret # "unset"
     /\ FormallyParsed
     /\ LineKey \in DOMAIN ignored_req_map
     /\ \A i \in 1..Len(ignored_req_map[LineKey]) :
            ignored_req_map[LineKey][i].spec # {}) =>
        ((line_ret = "False") <=>
            \E i \in 1..Len(ignored_req_map[LineKey]) :
                Range(req_line.spec) \subseteq Range(ignored_req_map[LineKey][i].spec))

\* C2: when the ignore options hold an entry with no specifier (and no marker
\* that fails), every formally parsed requirement of that case-folded name is
\* excluded, neither written nor counted, whatever its specifier and whatever
\* other entries the name has.
C2_EmptySpecifierExcludesAll ==
    (/\ line_ret # "unset"
     /\ req_line.kind = "text"
     /\ RequirementParses(req_line)
     /\ \E i \in 1..Len(ignore_req_lines) :
            /\ IgnoreEntryKept(ignore_req_lines[i],
                               target_env_for_markers(python_version))
            /\ ignore_req_lines[i].spec = {}
            /\ Lower(ignore_req_lines[i].name) = LineKey) =>
        (line_ret = "False" /\ tmp_file = <<>> /\ req_count = 0)

\* C2 witness: a requirement with a specifier, passing its marker, excluded by
\* the second entry of its name after a first entry with a specifier that does
\* not cover it.
C2_Witness ==
    /\ line_ret = "False"
    /\ FormallyParsed
    /\ req_line.spec # {}
    /\ LineKey \in DOMAIN ignored_req_map
    /\ Len(ignored_req_map[LineKey]) = 2
    /\ ignored_req_map[LineKey][1].spec # {}
    /\ ~IgnoredBy(req_line.spec, ignored_req_map[LineKey][1].spec)
    /\ ignored_req_map[LineKey][2].spec = {}

\* C3: no line written to the temporary requirements file carries a marker.
C3_NoMarkerInOutput ==
    \A i \in 1..Len(tmp_file) : tmp_file[i].marker = <<>>

\* C4: a line whose marker references odoo_version is emitted only if the
\* marker is true for the odoo version being provisioned; when it is false the
\* line is neither written nor counted.
C4_OdooVersionMarkerGates ==
    (/\ line_ret # "unset"
     /\ req_line.kind = "text"
     /\ MentionsOdooVersion(req_line.marker)
     /\ _evaluate_marker(req_line.marker, odoo_version, python_version) = "False") =>
        (line_ret = "False" /\ tmp_file = <<>> /\ req_count = 0)

\* The calls of _run_command made for extra_commands[i].
HookEvents(i) ==
    {k \in 1..Len(run_log) : run_log[k].what = "hook" /\ run_log[k].idx = i}

\* _run_commands_for_stage has been invoked for the stage.
StageInvoked(stage) ==
    \E k \in 1..Len(run_log) : run_log[k].what = "stage" /\ run_log[k].stage = stage

\* C7: a command whose stage field is absent is never executed at a stage
\* other than after_venv.
C7_AbsentStageOnlyAtDefault ==
    \A k \in 1..Len(run_log) :
        (run_log[k].what = "hook" /\ extra_commands[run_log[k].idx].stage = Absent)
            => run_log[k].stage = "after_venv"

\* A finished run that had a runnable stage-less command and went through the
\* two later stages without executing it.
C7_Witness ==
    /\ pc = "done"
    /\ StageInvoked("after_requirements")
    /\ StageInvoked("after_odoo_install")
    /\ \E i \in 1..Len(extra_commands) :
           /\ extra_commands[i] = Cmd(Absent, <<>>, "list")
           /\ \A k \in HookEvents(i) : run_log[k].stage = "after_venv"
    /\ \E k \in 1..Len(run_log) : run_log[k].what = "hook"

\* C8: once the after_venv invocation of _run_commands_for_stage has returned,
\* every command with no stage, a list command and a when that is absent or
\* true has been executed at after_venv.
C8_AbsentStageRunsAtAfterVenv ==
    (StageInvoked("after_venv") /\ pc \notin {"after_venv", "exited"}) =>
        \A i \in 1..Len(extra_commands) :
            ( /\ extra_commands[i].stage = Absent
              /\ extra_commands[i].command = "list"
              /\ _evaluate_marker(extra_commands[i].when, odoo_version,
                                  python_version) = "True" )
            => \E k \in HookEvents(i) : run_log[k].stage = "after_venv"

\* C9: in a finished run, every command whose stage is present and is not a
\* valid stage has an unknown-stage warning naming it and was never executed.
C9_UnknownStageWarned ==
    pc = "done" =>
        \A i \in 1..Len(extra_commands) :
            (extra_commands[i].stage # Absent
                /\ extra_commands[i].stage \notin VALID_STAGES)
            => /\ \E w \in 1..Len(warnings) :
                      /\ warnings[w].kind = "unknown_stage"
                      /\ warnings[w].idx = i
               /\ HookEvents(i) = {}

\* C10: a subprocess that was started and ended with a non-zero status is the
\* last thing the run did, and the run has ended with status 1.
C10_NonZeroExitAborts ==
    \A k \in 1..Len(run_log) :
        (run_log[k].started /\ run_log[k].rc # 0)
            => /\ k = Len(run_log)
               /\ pc = "exited"
               /\ exit_status = "1"

\* A hook of the after_requirements stage failed after the environment was
\* created and the after_venv stage was run.
C10_Witness ==
    /\ run_log # <<>>
    /\ run_log[Len(run_log)].what = "hook"
    /\ run_log[Len(run_log)].stage = "after_requirements"
    /\ run_log[Len(run_log)].started
    /\ run_log[Len(run_log)].rc = 1
    /\ run_log[1].what = "venv" /\ run_log[1].started
    /\ pc = "exited"
    /\ exit_status = "1"

\* major.minor of the version, as a pair of numbers, is below (3, 7).
BelowThreeSeven(py) ==
    /\ py # None
    /\ LET mm == parse_version(MajorMinor(py))
       IN  mm[1] < 3 \/ (mm[1] = 3 /\ Len(mm) >= 2 /\ mm[2] < 7) \/ mm = <<3>>

\* C11: when the interpreter version in use (requested, or detected when none
\* was requested) is below 3.7, nothing has been invoked (no subprocess, no
\* stage, no install) and the run can only have ended with status 1.
C11_OldPythonAbortsBeforeAnything ==
    BelowThreeSeven(python_version) =>
        /\ run_log = <<>>
        /\ tmp_state = "absent"
        /\ pc \in {"start", "exited"}
        /\ pc = "exited" => exit_status = "1"

\* A non-dry run with hooks configured that ended on the version test.
C11_Witness ==
    /\ pc = "exited"
    /\ exit_status = "1"
    /\ BelowThreeSeven(python_version)
    /\ ~dry_run
    /\ \E i \in 1..Len(extra_commands) : extra_commands[i].stage = "after_venv"
    /\ run_log = <<>>

\* The requirement-install step (uv pip install -r) has been invoked.
InstallInvoked ==
    \E k \in 1..Len(run_log) : run_log[k].what = "install_reqs"

\* C12: the running count equals the number of lines written to the temporary
\* file; the requirement-install step is invoked only with a count above zero,
\* and once the step is behind (the file is removed) it was invoked exactly
\* when the count is above zero.
C12_CountMatchesAndGatesInstall ==
    /\ req_count = Len(tmp_file)
    /\ InstallInvoked => req_count > 0
    /\ tmp_state = "removed" => (InstallInvoked <=> req_count > 0)

\* Candidate lines were read, none was emitted, and the run went past the
\* install step without invoking it.
C12_Witness ==
    /\ tmp_state = "removed"
    /\ CandidateLines(sources) # <<>>
    /\ \E i \in 1..Len(CandidateLines(sources)) :
           CandidateLines(sources)[i].kind = "text"
    /\ req_count = 0
    /\ tmp_file = <<>>
    /\ ~InstallInvoked

\* The document load_presets read, once it has returned.
LoadedDoc == user_file.doc

PresetsLoaded == pc = "presets_loaded"

\* The sections of the loaded document that are merged with [common].
MergedNames ==
    IF "common" \in DOMAIN LoadedDoc THEN DOMAIN LoadedDoc \ {"common"} ELSE {}

\* C13: for every preset merged with [common], when both hold a list of
\* extra_commands the merged list is common's entries followed by the
\* preset's; and the Preset of common still holds common's own list.
C13_ListFieldsConcatenate ==
    PresetsLoaded =>
        /\ \A name \in MergedNames :
               ("extra_commands" \in DOMAIN LoadedDoc["common"]
                    /\ "extra_commands" \in DOMAIN LoadedDoc[name])
               => presets[name].extra_commands =
                      LoadedDoc["common"]["extra_commands"]
                          \o LoadedDoc[name]["extra_commands"]
        /\ ("common" \in DOMAIN LoadedDoc
                /\ "extra_commands" \in DOMAIN LoadedDoc["common"])
           => presets["common"].extra_commands = LoadedDoc["common"]["extra_commands"]

\* common [A] merged into two presets, [B] and [C].
C13_Witness ==
    /\ PresetsLoaded
    /\ {"common", "x", "y"} \subseteq DOMAIN presets
    /\ presets["x"].extra_commands = <<"A", "B">>
    /\ presets["y"].extra_commands = <<"A", "C">>
    /\ presets["common"].extra_commands = <<"A">>

\* The value a section gives a text field: the empty text when it is not set.
TextOf(options, key) == IF key \in DOMAIN options THEN options[key] ELSE <<>>

\* C14: for every preset merged with [common] and every comma-joined field one
\* of them sets, the merged text is common's, a comma, the preset's when both
\* are non-empty, and the non-empty side's text alone otherwise.
C14_StringListsJoinWithComma ==
    PresetsLoaded =>
        \A name \in MergedNames :
            \A key \in string_list_fields :
                (key \in DOMAIN LoadedDoc["common"] \/ key \in DOMAIN LoadedDoc[name])
                => presets[name][key] =
                       IF TextOf(LoadedDoc["common"], key) # <<>>
                             /\ TextOf(LoadedDoc[name], key) # <<>>
                       THEN TextOf(LoadedDoc["common"], key) \o <<",">>
                                \o TextOf(LoadedDoc[name], key)
                       ELSE TextOf(LoadedDoc["common"], key)
                                \o TextOf(LoadedDoc[name], key)

\* The fields that are neither extra_commands nor comma-joined.
OtherFields == DOMAIN Preset \ (list_fields \cup string_list_fields)

\* C15: for every preset merged with [common] and every other field, the
\* merged value is the preset's own when the preset sets it, otherwise
\* common's when common sets it; common's description is never inherited.
C15_OtherFieldsReplaced ==
    PresetsLoaded =>
        \A name \in MergedNames :
            \A key \in OtherFields :
                presets[name][key] =
                    IF key \in DOMAIN LoadedDoc[name] THEN LoadedDoc[name][key]
                    ELSE IF key \in DOMAIN LoadedDoc["common"] /\ key # "description"
                    THEN LoadedDoc["common"][key]
                    ELSE Preset[key]

\* common sets install_odoo true and a description; the preset sets
\* install_odoo false and no description.
C15_Witness ==
    /\ PresetsLoaded
    /\ {"x", "y"} \subseteq MergedNames
    /\ "install_odoo" \in DOMAIN LoadedDoc["common"]
    /\ LoadedDoc["common"]["install_odoo"] = TRUE
    /\ "description" \in DOMAIN LoadedDoc["common"]
    /\ "description" \notin DOMAIN LoadedDoc["x"]
    /\ "install_odoo" \in DOMAIN LoadedDoc["x"]
    /\ presets["x"].install_odoo = FALSE
    /\ presets["x"].description = None
    /\ presets["y"].install_odoo = TRUE

\* C19: load_presets returns a Preset for every name of the shipped document
\* or of the user's document, and for a name in both, a field that only the
\* shipped section sets keeps the shipped value.
C19_DefaultsAndOverlay ==
    PresetsLoaded =>
        /\ DOMAIN presets = DOMAIN default_doc \cup DOMAIN LoadedDoc
        /\ \A name \in DOMAIN default_doc \cap DOMAIN LoadedDoc :
               \A key \in DOMAIN default_doc[name] \ DOMAIN LoadedDoc[name] :
                   presets[name][key] = default_doc[name][key]

\* The preset a command line selects: the one named by --preset, else
\* "project" when --project-dir is passed, else none.
SelectedPreset ==
    IF argv.preset # Absent THEN argv.preset
    ELSE IF argv.project_dir THEN "project"
    ELSE Absent

\* The three tiers for option k: the flag, the selected preset's value, the
\* shipped default.
ThreeTier(k) ==
    IF k \in DOMAIN argv.flags THEN argv.flags[k]
    ELSE IF SelectedPreset # Absent
              /\ (k \in BoolOptions \/ presets[SelectedPreset][k] # None)
    THEN presets[SelectedPreset][k]
    ELSE OptionDefaults[k]

\* C16: when create() calls create_odoo_venv, every option is handed the
\* explicitly passed flag value, else the selected preset's value, else the
\* shipped default (extra_requirement as its comma-split list).
C16_ThreeTierPrecedence ==
    pc = "handed" =>
        /\ \A k \in DOMAIN OptionDefaults \ {"extra_requirement"} :
               create_kwargs[k] = ThreeTier(k)
        /\ create_kwargs.extra_requirements =
               IF ThreeTier("extra_requirement") = None THEN <<>>
               ELSE SplitOn(ThreeTier("extra_requirement"), ",")

\* A preset that turns install_odoo off, a flag that turns it on, and a field
\* only the preset (merged with common) gives.
C16_Witness ==
    /\ pc = "handed"
    /\ argv.preset = "x"
    /\ "install_odoo" \in DOMAIN argv.flags
    /\ argv.flags["install_odoo"] = TRUE
    /\ presets["x"].install_odoo = FALSE
    /\ create_kwargs.install_odoo = TRUE
    /\ "ignore_from_odoo_requirements" \notin DOMAIN argv.flags
    /\ create_kwargs.ignore_from_odoo_requirements = <<"foo", ",", "bar">>
    /\ create_kwargs.install_addons_dirs_requirements = FALSE
    /\ create_kwargs.extra_commands = <<"B">>

\* C17: a line that fails formal parsing is skipped and not counted when its
\* leading name, lower-cased, is a key of the ignore map (whatever specifier
\* the entries carry); otherwise it is written as it is and counted once.
C17_FallbackByBareName ==
    (line_ret # "unset" /\ req_line.kind = "text" /\ ~RequirementParses(req_line)) =>
        IF req_line.name # "" /\ Lower(req_line.name) \in DOMAIN ignored_req_map
        THEN line_ret = "False" /\ tmp_file = <<>> /\ req_count = 0
        ELSE line_ret = "True" /\ tmp_file = <<req_line>> /\ req_count = 1

\* An unparseable line named Pkg skipped because of an ignore entry pkg that
\* carries a specifier.
C17_Witness ==
    /\ line_ret = "False"
    /\ req_line.kind = "text"
    /\ req_line.syntax = "bad"
    /\ req_line.name = "Pkg"
    /\ "pkg" \in DOMAIN ignored_req_map
    /\ \A i \in 1..Len(ignored_req_map["pkg"]) : ignored_req_map["pkg"][i].spec # {}
    /\ tmp_file = <<>>

\* os.remove(tmp_path) has been called.
TmpRemoved == \E k \in 1..Len(run_log) : run_log[k].what = "remove_tmp"

\* C18: past the requirement-install step the temporary file is deleted, and
\* it was deleted before anything of the after_requirements stage; a run that
\* has ended leaves the file on disk only when it aborted during aggregation
\* or on a failing requirement install.
C18_TmpFileLifecycle ==
    /\ pc \in {"after_requirements", "install_odoo", "after_odoo_install", "done"}
           => tmp_state = "removed"
    /\ \A k \in 1..Len(run_log) :
           run_log[k].stage = "after_requirements" =>
               \E j \in 1..(k - 1) : run_log[j].what = "remove_tmp"
    /\ (pc \in {"done", "exited"} /\ tmp_state = "exists") =>
           /\ pc = "exited"
           /\ ~TmpRemoved
           /\ \/ ~InstallInvoked /\ Len(tmp_file) < Len(CandidateLines(sources))
              \/ /\ run_log[Len(run_log)].what = "install_reqs"
                 /\ run_log[Len(run_log)].started
                 /\ run_log[Len(run_log)].rc # 0
    /\ tmp_state = "removed" <=> TmpRemoved

\* A run with no line to install that deleted the file and then ran an
\* after_requirements hook.
C18_Witness ==
    /\ tmp_state = "removed"
    /\ ~InstallInvoked
    /\ \E k \in 1..Len(run_log) :
           /\ run_log[k].what = "hook"
           /\ run_log[k].stage = "after_requirements"
           /\ \E j \in 1..(k - 1) : run_log[j].what = "remove_tmp"

\* The lines _process_requirement_line emits for the lines of one source.
EmittedOf(lines) ==
    Flatten([i \in 1..Len(lines) |->
                _process_requirement_line(lines[i], ignored_req_map,
                                          target_env_for_markers(python_version)).out])

\* The emitted lines of the five kinds of source, in the claimed order.
EmittedInSourceOrder ==
    (IF sources.install_odoo_requirements
     THEN EmittedOf(sources.odoo_reqs_file) ELSE <<>>)
        \o (IF sources.install_addons_dirs_requirements
            THEN Flatten([d \in 1..Len(sources.addons_req_files) |->
                             EmittedOf(sources.addons_req_files[d])])
            ELSE <<>>)
        \o EmittedOf(sources.extra_requirements)
        \o EmittedOf(sources.extra_requirements_file)
        \o (IF sources.install_addons_manifests_requirements
            THEN Flatten([m \in 1..Len(sources.manifest_deps) |->
                             EmittedOf(sources.manifest_deps[m])])
            ELSE <<>>)

\* C20: once the aggregation has run to its end, the temporary file is the
\* concatenation of the lines emitted for the core file, the addons
\* directories' files, the inline extras, the extras file and the manifests,
\* in this order, with nothing dropped for a name already emitted.
C20_OutputIsOrderedConcatenation ==
    (tmp_state # "absent" /\ (pc = "exited" => InstallInvoked)) =>
        tmp_file = EmittedInSourceOrder

\* The package lib emitted from the core file, an addons directory, the inline
\* extras, the extras file and a manifest.
C20_Witness ==
    /\ tmp_state # "absent"
    /\ pc # "exited"
    /\ Len(tmp_file) = 6
    /\ tmp_file[1] = sources.odoo_reqs_file[1]
    /\ tmp_file[4] = sources.extra_requirements[1]
    /\ tmp_file[6] = sources.manifest_deps[1][1]
    /\ Cardinality({i \in 1..6 : tmp_file[i].name = "lib"}) = 5

\* C21: no line of the temporary file is blank or carries a '#' comment, and
\* a blank or pure-comment input line is skipped without being counted.
C21_NoCommentInOutput ==
    /\ \A i \in 1..Len(tmp_file) :
           tmp_file[i].kind = "text" /\ ~tmp_file[i].comment
    /\ (line_ret # "unset" /\ req_line.kind # "text") =>
           line_ret = "False" /\ tmp_file = <<>> /\ req_count = 0

\* C22: in an evaluated expression that references odoo_version, every operand
\* that is not exactly variable, comparator, quoted literal, or whose variable
\* the environment does not hold, evaluates to false; an expression that is
\* one such operand is false.
C22_MalformedOperandIsFalse ==
    (marker_result # "unset" /\ MentionsOdooVersion(marker_expr)) =>
        /\ \A i \in AtomPositions(marker_expr) :
               UnusableAtom(marker_expr[i]) =>
                   ~EvaluateComparison(marker_expr[i], CurrentVariables)
        /\ (Len(marker_expr) = 1 /\ UnusableAtom(marker_expr[1])) =>
               marker_result = "False"

\* extra_commands[i] is selected at the stage: its stage is this one and its
\* when is absent or true.
SelectedAt(i, stage) ==
    /\ extra_commands[i].stage = stage
    /\ _evaluate_marker(extra_commands[i].when, odoo_version, python_version) = "True"

\* A command before position i failed at the stage.
AbortedBefore(i, stage) ==
    \E k \in 1..Len(run_log) :
        /\ run_log[k].what = "hook"
        /\ run_log[k].stage = stage
        /\ run_log[k].idx < i
        /\ run_log[k].started
        /\ run_log[k].rc # 0

\* C23: a command whose command field is missing or not a non-empty list is
\* never handed to _run_command; at a stage that selects it and that no
\* earlier command aborted, a warning names it, and the valid commands after
\* it that the stage selects are still run, in list order.
C23_InvalidCommandSkipped ==
    /\ \A i \in 1..Len(extra_commands) :
           extra_commands[i].command # "list" => HookEvents(i) = {}
    /\ \A stage \in VALID_STAGES :
           StageInvoked(stage) =>
               \A i \in 1..Len(extra_commands) :
                   (SelectedAt(i, stage) /\ extra_commands[i].command # "list"
                        /\ ~AbortedBefore(i, stage))
                   => /\ \E w \in 1..Len(warnings) :
                             warnings[w] = Warning("invalid_command", i, stage)
                      /\ \A j \in (i + 1)..Len(extra_commands) :
                             (SelectedAt(j, stage)
                                  /\ extra_commands[j].command = "list"
                                  /\ ~AbortedBefore(j, stage))
                             => \E k \in HookEvents(j) : run_log[k].stage = stage
    /\ \A k1, k2 \in 1..Len(run_log) :
           (k1 < k2 /\ run_log[k1].what = "hook" /\ run_log[k2].what = "hook"
                /\ run_log[k1].stage = run_log[k2].stage)
           => run_log[k1].idx < run_log[k2].idx

\* A command that is a string, selected at after_requirements, skipped with a
\* warning, and the command after it run at the same stage.
C23_Witness ==
    /\ Len(extra_commands) = 2
    /\ extra_commands[1].command = "string"
    /\ SelectedAt(1, "after_requirements")
    /\ HookEvents(1) = {}
    /\ \E w \in 1..Len(warnings) :
           warnings[w] = Warning("invalid_command", 1, "after_requirements")
    /\ \E k \in HookEvents(2) : run_log[k].stage = "after_requirements"
    /\ pc = "done"

\* The positions of run_log where _run_commands_for_stage is entered for the stage.
StagePositions(stage) ==
    {k \in 1..Len(run_log) : run_log[k].what = "stage" /\ run_log[k].stage = stage}

\* A step of the given kind was passed before position k without exiting.
PassedBefore(what, k) ==
    \E j \in 1..(k - 1) :
        /\ run_log[j].what = what
        /\ ~(run_log[j].started /\ run_log[j].rc # 0)

\* C24: every stage is entered at most once and in the order after_venv,
\* after_requirements, after_odoo_install; after_venv follows a venv creation
\* that did not fail, after_requirements follows the removal of the temporary
\* file (and the requirement install when a line was emitted) and precedes the
\* editable install, after_odoo_install follows an editable install that did
\* not fail and never occurs when install_odoo is false; a completed run has
\* entered after_venv and after_requirements, and after_odoo_install exactly
\* when install_odoo is true.
C24_StagesOnceInOrder ==
    /\ \A stage \in VALID_STAGES : Cardinality(StagePositions(stage)) <= 1
    /\ \A k \in StagePositions("after_venv") : PassedBefore("venv", k)
    /\ \A k \in StagePositions("after_requirements") :
           /\ \E j \in StagePositions("after_venv") : j < k
           /\ PassedBefore("remove_tmp", k)
           /\ req_count > 0 => PassedBefore("install_reqs", k)
           /\ \A j \in 1..(k - 1) : run_log[j].what # "install_odoo"
    /\ \A k \in StagePositions("after_odoo_install") :
           /\ \E j \in StagePositions("after_requirements") : j < k
           /\ install_odoo
           /\ PassedBefore("install_odoo", k)
    /\ pc = "done" =>
           /\ StageInvoked("after_venv")
           /\ StageInvoked("after_requirements")
           /\ StageInvoked("after_odoo_install") <=> install_odoo

\* A completed run without editable install and with no line emitted: the
\* first two stages were entered, the third was not.
C24_Witness ==
    /\ pc = "done"
    /\ ~install_odoo
    /\ req_count = 0
    /\ ~InstallInvoked
    /\ StagePositions("after_venv") # {}
    /\ StagePositions("after_requirements") # {}
    /\ StagePositions("after_odoo_install") = {}

\* The three ignore options of the run.
IgnoreOptions ==
    <<sources.ignore_from_odoo_requirements,
      sources.ignore_from_addons_dirs_requirements,
      sources.ignore_from_addons_manifests_requirements>>

\* The names of the lines of a sequence, case-folded.
NamesOf(lines) == {Lower(lines[i].name) : i \in 1..Len(lines)}

C26_DryRunCompletes ==
    dry_run =>
        /\ \A k \in 1..Len(run_log) : ~run_log[k].started
        /\ pc = "install_reqs" => tmp_state = "exists"
        /\ pc \in {"after_requirements", "install_odoo", "after_odoo_install", "done"}
               => tmp_state = "removed"
        /\ pc = "exited" => run_log = <<>> /\ tmp_state = "absent"

====
